---- MODULE Spec2Model ----
(***************************************************************************)
(* A model of src/openmp/serial_gs_pagerank_functions.c: the OpenMP        *)
(* Gauss-Seidel PageRank solver (pagerank, calculateNextPagerank,          *)
(* vectorNorm, savePagerankToFile) and the graph loader                    *)
(* (generateNormalizedTransitionMatrixFromFile, initialize).               *)
(*                                                                         *)
(* Numbers.  A C double is modelled as a fixed-point integer: the integer  *)
(* x stands for the real x / One.  A product or a quotient is truncated to *)
(* that resolution, which stands for the rounding of the double.  The      *)
(* result of a division is kept with its IEEE class (a number, +infinity,  *)
(* NaN) so that a comparison with it behaves as in C.                      *)
(*                                                                         *)
(* Indices are those of the C code: pages, rows and columns count from 0;  *)
(* the element arrays of the matrices are TLA+ sequences, so the C index j *)
(* is the sequence index j + 1.                                            *)
(***************************************************************************)
EXTENDS Integers, Sequences, FiniteSets, TLC

\* ------------------------------------------------------------------ bounds
\* Pages are 0..MaxPage; a graph file the solver is run on holds at most
\* MaxEdges edge lines.
MaxPage == 2
MaxEdges == 3
\* A graph file the loader is run on holds at most MaxFileLines lines after its
\* header, and its header announces at most MaxFileLines + 1 edges.
MaxFileLines == 2
\* omp_get_max_threads() answers 1..MaxThreads.
MaxThreads == 2
\* The -m argument is 0 (unlimited) or 1..MaxIterationsArgument.
MaxIterationsArgument == 2
\* An unlimited run is followed for at most IterationCap iterations.
IterationCap == 7
\* fopen of the output file fails at most MaxOpenFailures times in a run.
MaxOpenFailures == 1
\* A command line parseArguments is run on holds at most MaxArguments arguments
\* after the program name.
MaxArguments == 3
\* Resolution of the fixed-point numbers (see One).
Resolution == 256

\* --------------------------------------------------------------- constants
CONVERGENCE_CHECK_ITERATION_PERIOD == 3
SPARSITY_INCREASE_ITERATION_PERIOD == 3

\* ----------------------------------------------------------------- numbers
Max(a, b) == IF a >= b THEN a ELSE b

RECURSIVE Gcd(_, _)
Gcd(a, b) == IF b = 0 THEN a ELSE Gcd(b, a % b)

RECURSIVE LcmUpTo(_)
LcmUpTo(n) == IF n <= 1 THEN 1 ELSE LET l == LcmUpTo(n - 1) IN (l * n) \div Gcd(l, n)

\* The fixed-point 1.0: every 1/d with d an out-degree or a page count is exact.
One == LcmUpTo(Max(Max(MaxEdges, MaxFileLines) + 1, MaxPage + 1)) * Resolution
Half == One \div 2

\* The double an int converts to.
ToDouble(n) == n * One

fabs(x) == IF x < 0 THEN 0 - x ELSE x

\* a * b of two doubles.
Mul(a, b) == (a * b) \div One

\* a / b of two doubles, with the IEEE class of the result.
Quotient(a, b) ==
  IF b = 0
    THEN IF a = 0 THEN [class |-> "nan", v |-> 0] ELSE [class |-> "inf", v |-> 0]
    ELSE [class |-> "num", v |-> (a * One) \div b]

\* q < t for the result q of a division and a finite double t: false for a NaN
\* (every ordered comparison with NaN is false) and for +infinity.
IsLess(q, t) == q.class = "num" /\ q.v < t

RECURSIVE SumTo(_, _)
\* f[0] + ... + f[n-1]
SumTo(f, n) == IF n = 0 THEN 0 ELSE SumTo(f, n - 1) + f[n - 1]

\* vectorNorm: the first norm of a vector of vectorSize elements.
vectorNorm(vector, vectorSize) == SumTo([i \in 0..(vectorSize - 1) |-> fabs(vector[i])], vectorSize)

RECURSIVE SumSeq(_)
SumSeq(s) == IF s = <<>> THEN 0 ELSE Head(s) + SumSeq(Tail(s))

\* The subsequence of s whose elements satisfy Test, in order.
SelectIndices(s, Test(_)) ==
  LET RECURSIVE Pick(_)
      Pick(k) == IF k > Len(s) THEN <<>>
                 ELSE (IF Test(k) THEN <<k>> ELSE <<>>) \o Pick(k + 1)
  IN Pick(1)

\* ----------------------------------------------------------------- vectors
Pages(numberOfPages) == 0..(numberOfPages - 1)

ZeroVector(numberOfPages) == [i \in Pages(numberOfPages) |-> 0]

\* ------------------------------------------------- coordinate (COO) matrix
\* A CooSparseMatrix: its first `size` elements are the matrix, each a triple
\* (value, rowIndex, columnIndex).
initCooSparseMatrix == [size |-> 0, elements |-> <<>>]

CooElement(value, row, column) == [value |-> value, rowIndex |-> row, columnIndex |-> column]

\* addElement, run from its first to its last statement without interruption.
addElement(coo, value, row, column) ==
  [size |-> coo.size + 1,
   elements |-> SubSeq(coo.elements, 1, coo.size) \o <<CooElement(value, row, column)>>]

\* transposeSparseMatrix: swaps the row and the column of every element.
transposeSparseMatrix(coo) ==
  [size |-> coo.size,
   elements |-> [k \in 1..coo.size |->
      CooElement(coo.elements[k].value, coo.elements[k].columnIndex, coo.elements[k].rowIndex)]]

\* cooSparseMatrixVectorMultiplication: output[row] is the sum of
\* value * vector[column] over the elements of that row.
cooSparseMatrixVectorMultiplication(coo, vector, numberOfPages) ==
  [i \in Pages(numberOfPages) |->
     SumSeq([k \in 1..coo.size |->
        IF coo.elements[k].rowIndex = i
          THEN Mul(coo.elements[k].value, vector[coo.elements[k].columnIndex])
          ELSE 0])]

\* ------------------------------------------- compressed sparse row matrix
\* A CsrSparseMatrix: the elements of row i are those with C index j in
\* rowCumulativeIndexes[i] .. rowCumulativeIndexes[i+1] - 1.
RowElements(coo, row) == SelectIndices(coo.elements, LAMBDA k : k <= coo.size /\ coo.elements[k].rowIndex = row)

RECURSIVE RowsUpTo(_, _)
\* The indices of the elements of rows 0..row-1 of coo, row by row.
RowsUpTo(coo, row) == IF row = 0 THEN <<>> ELSE RowsUpTo(coo, row - 1) \o RowElements(coo, row - 1)

\* transformToCSR: groups the elements by row, each row in the order of the
\* coordinate matrix.
transformToCSR(coo, numberOfPages) ==
  LET order == RowsUpTo(coo, numberOfPages)
  IN [numberOfNonZeroElements |-> Len(order),
      rowCumulativeIndexes |-> [i \in 0..numberOfPages |-> Len(RowsUpTo(coo, i))],
      columnIndexes |-> [k \in 1..Len(order) |-> coo.elements[order[k]].columnIndex],
      values |-> [k \in 1..Len(order) |-> coo.elements[order[k]].value]]

\* The C indices j of the stored elements of a row.
RowRange(csr, row) == csr.rowCumulativeIndexes[row]..(csr.rowCumulativeIndexes[row + 1] - 1)

\* zeroOutRow: the elements of the row stay stored, with the value 0.
zeroOutRow(csr, row) ==
  [csr EXCEPT !.values = [k \in 1..Len(csr.values) |->
      IF (k - 1) \in RowRange(csr, row) THEN 0 ELSE csr.values[k]]]

\* zeroOutColumn: the elements of the column stay stored, with the value 0.
zeroOutColumn(csr, column) ==
  [csr EXCEPT !.values = [k \in 1..Len(csr.values) |->
      IF csr.columnIndexes[k] = column THEN 0 ELSE csr.values[k]]]

\* csrSparseMatrixVectorMultiplication: output[i] is the sum of
\* value * vector[column] over the stored elements of row i.
csrSparseMatrixVectorMultiplication(csr, vector, numberOfPages) ==
  [i \in Pages(numberOfPages) |->
     SumSeq([k \in 1..Len(csr.values) |->
        IF (k - 1) \in RowRange(csr, i)
          THEN Mul(csr.values[k], vector[csr.columnIndexes[k]])
          ELSE 0])]

\* ------------------------------------------------------------ graph file
\* A graph file after its four header lines: the edge count its third line
\* announces and its remaining tokens, each an edge line "from to" or a text
\* that is no number.
EdgeLine(from, to) == [kind |-> "edge", from |-> from, to |-> to]
TextLine == [kind |-> "text", from |-> 0, to |-> 0]

RECURSIVE SeqsUpTo(_, _)
\* The sequences over S of length at most n.
SeqsUpTo(S, n) ==
  IF n = 0 THEN {<<>>}
  ELSE LET shorter == SeqsUpTo(S, n - 1)
       IN shorter \cup {Append(s, x) : s \in {t \in shorter : Len(t) = n - 1}, x \in S}

EdgeLines == {EdgeLine(f, t) : f \in 0..MaxPage, t \in 0..MaxPage}

\* The place of an edge line in a file sorted by source page, then target page.
EdgeRank(line) == line.from * (MaxPage + 1) + line.to

\* The files the solver is run on: the header announces exactly the edges that
\* follow, and the edge lines are sorted.
ValidFiles ==
  {[numberOfEdges |-> Len(l), lines |-> l] :
     l \in {m \in SeqsUpTo(EdgeLines, MaxEdges) :
              \A k \in 1..(Len(m) - 1) : EdgeRank(m[k]) <= EdgeRank(m[k + 1])}}

\* Valid files of one more edge line than those of ValidFiles, for the runs in
\* which one page has two links to copy while another page has one.
LongFiles ==
  {[numberOfEdges |-> Len(l), lines |-> l] :
     l \in {m \in SeqsUpTo(EdgeLines, MaxEdges + 1) :
              /\ Len(m) = MaxEdges + 1
              /\ \A k \in 1..(Len(m) - 1) : EdgeRank(m[k]) <= EdgeRank(m[k + 1])}}

\* The files the loader is run on: the header may announce more or fewer
\* edges than follow, and a line may hold a text that is no number.
AllFiles ==
  {[numberOfEdges |-> n, lines |-> l] :
     n \in 0..(MaxFileLines + 1), l \in SeqsUpTo(EdgeLines \cup {TextLine}, MaxFileLines)}

\* fscanf(graphFile, "%d %d", &fileFrom, &fileTo) at a position of the file:
\* its return value (EOF is -1), what fileFrom and fileTo hold afterwards
\* (both are 0 before the call) and the position after it.
fscanfEdge(file, position) ==
  IF position > Len(file.lines)
    THEN [result |-> -1, from |-> 0, to |-> 0, position |-> position]
  ELSE IF file.lines[position].kind = "text"
    THEN [result |-> 0, from |-> 0, to |-> 0, position |-> position]
  ELSE [result |-> 2, from |-> file.lines[position].from,
        to |-> file.lines[position].to, position |-> position + 1]

EmptyCsr ==
  [numberOfNonZeroElements |-> 0, rowCumulativeIndexes |-> [i \in 0..0 |-> 0],
   columnIndexes |-> <<>>, values |-> <<>>]

\* The loader's local state at the start of the edge loop.
LoaderStart ==
  [pc |-> "read", i |-> 0, position |-> 1, tempMatrix |-> initCooSparseMatrix,
   maxPageIndex |-> 0, numberOfPages |-> 0, pageOutdegree |-> <<>>]

\* One pass of the edge loop (i < numberOfEdges): a return value of 0 breaks,
\* every other one (2, and EOF) adds the edge fileFrom -> fileTo.
readEdge(file, l) ==
  LET r == fscanfEdge(file, l.position)
  IN IF r.result = 0
       THEN [l EXCEPT !.pc = "count"]
       ELSE [l EXCEPT !.i = @ + 1,
                      !.position = r.position,
                      !.maxPageIndex = Max(Max(@, r.from), r.to),
                      !.tempMatrix = addElement(@, One, r.from, r.to)]

\* The edge loop is left when i reaches numberOfEdges.
endOfEdges(file, l) == [l EXCEPT !.pc = "count"]

\* The out-degree loop reads elements 0..numberOfEdges-1 of tempMatrix.
OutdegreeReadsInBounds(file, l) == file.numberOfEdges <= l.tempMatrix.size

\* The count taken over the columns (the in-degree) instead of the rows.
pageOutdegreeOf_ColumnCounted(tempMatrix, numberOfEdges, numberOfPages) ==
  [page \in Pages(numberOfPages) |->
     Cardinality({i \in 0..(numberOfEdges - 1) : tempMatrix.elements[i + 1].columnIndex = page})]

pageOutdegreeOf(tempMatrix, numberOfEdges, numberOfPages) ==
  [page \in Pages(numberOfPages) |->
     Cardinality({i \in 0..(numberOfEdges - 1) : tempMatrix.elements[i + 1].rowIndex = page})]

\* numberOfPages and the out-degree of each page.
countOutdegree(file, l) ==
  [l EXCEPT !.pc = "normalize",
            !.numberOfPages = l.maxPageIndex + 1,
            !.pageOutdegree = pageOutdegreeOf(l.tempMatrix, file.numberOfEdges, l.maxPageIndex + 1)]

\* value = 1. / pageOutdegree[rowIndex] for every element.
normalizeValues(tempMatrix, pageOutdegree) ==
  [size |-> tempMatrix.size,
   elements |-> [k \in 1..tempMatrix.size |->
      [tempMatrix.elements[k] EXCEPT
         !.value = Quotient(One, ToDouble(pageOutdegree[tempMatrix.elements[k].rowIndex])).v]]]

normalize(file, l) ==
  [l EXCEPT !.pc = "transform", !.tempMatrix = normalizeValues(@, l.pageOutdegree)]

\* The transposed matrix in CSR form.
transformed(l) == transformToCSR(transposeSparseMatrix(l.tempMatrix), l.numberOfPages)

RECURSIVE readAllEdges(_, _)
readAllEdges(file, l) ==
  IF l.pc # "read" THEN l
  ELSE IF l.i < file.numberOfEdges THEN readAllEdges(file, readEdge(file, l))
  ELSE endOfEdges(file, l)

\* The loader before line 448, on a file whose out-degree loop stays in bounds.
normalizedFrom(file) == normalize(file, countOutdegree(file, readAllEdges(file, LoaderStart)))

\* Lines 448-453: tempMatrix is transposed, converted and destroyed.
finishLoad(l) == [l EXCEPT !.pc = "loaded", !.tempMatrix = initCooSparseMatrix]

\* ---------------------------------------------------------- command line
\* The options validUsage lists.
Options == {"-c", "-m", "-a", "-v", "-h", "-o"}
ValueOptions == {"-c", "-m", "-a", "-o"}

\* Texts of numbers and names of files an argument may hold.
NumberTexts == {"1", "0.25", "0.85", "2", "0", "-1"}
FileNames == {"graph", "out", "locked"}
ArgumentTexts == Options \cup NumberTexts \cup FileNames

\* The paths fopen(path, "w") answers NULL for.
UnwritablePaths == {"locked"}

DEFAULT_OUTPUT_FILENAME == "pagerank_output"

\* strtod(text, &endPointer): the double the text starts with, 0 for a text
\* that starts with no number.
strtod(text) ==
  CASE text = "1" -> One
    [] text = "0.25" -> One \div 4
    [] text = "0.85" -> (17 * One) \div 20
    [] text = "2" -> 2 * One
    [] text = "-1" -> 0 - One
    [] OTHER -> 0

\* strtol(text, &endPointer, NUMERICAL_BASE): the integer the text starts
\* with, 0 for a text that starts with no integer.
strtol(text) ==
  CASE text = "1" -> 1
    [] text = "2" -> 2
    [] text = "-1" -> -1
    [] OTHER -> 0

\* argumentVector[index] of the C code.
Argument(argv, index) == argv[index + 1]

\* checkIncrement: the next index, or the exit through validUsage.
checkIncrement(previousIndex, maxIndex) ==
  IF previousIndex = maxIndex
    THEN [exits |-> TRUE, index |-> previousIndex]
    ELSE [exits |-> FALSE, index |-> previousIndex + 1]

\* parseArguments' position and the fields of *parameters the solver does not
\* read; `handled` lists the option and value pairs the loop has read.
ParserStart ==
  [pc |-> "start", argumentIndex |-> 0, verbose |-> FALSE, outputFilename |-> "",
   graphFilename |-> "", handled |-> <<>>]

\* The record main declares, before parseArguments has written it.
UnsetParameters ==
  [numberOfPages |-> 0, maxIterations |-> 0, convergenceCriterion |-> 0,
   dampingFactor |-> 0, history |-> FALSE, realIterations |-> 0]

\* parseArguments' defaults; numberOfPages is set by the loader.
DefaultParameters ==
  [numberOfPages |-> 0, maxIterations |-> 0, convergenceCriterion |-> One,
   dampingFactor |-> (17 * One) \div 20, history |-> FALSE, realIterations |-> 0]

\* Lines 264-277: the argument count is checked and the defaults are set.
startParse(argv, p, params) ==
  IF Len(argv) < 2 \/ Len(argv) > 10
    THEN [parser |-> [p EXCEPT !.pc = "exited"], parameters |-> params]
    ELSE [parser |-> [p EXCEPT !.pc = "parse", !.argumentIndex = 1,
                               !.outputFilename = DEFAULT_OUTPUT_FILENAME],
          parameters |-> DefaultParameters]

\* Lines 279-326: one pass of the argument loop (argumentIndex < argumentCount).
parseArgument(argv, p, params) ==
  LET argumentCount == Len(argv)
      argument == Argument(argv, p.argumentIndex)
      next == checkIncrement(p.argumentIndex, argumentCount)
      value == Argument(argv, next.index)
      read == [p EXCEPT !.argumentIndex = next.index,
                        !.handled = Append(@, <<argument, value>>)]
      Exits(q) == [parser |-> [q EXCEPT !.pc = "exited"], parameters |-> params]
      Goes(q, r) == [parser |-> [q EXCEPT !.argumentIndex = @ + 1], parameters |-> r]
  IN IF argument \in ValueOptions /\ next.exits
       THEN Exits(p)
     ELSE IF argument \in ValueOptions /\ next.index >= argumentCount
       \* argumentVector[argumentCount] is NULL: strtod, strtol and fopen of it
       \* are undefined.
       THEN [parser |-> [p EXCEPT !.pc = "undefined", !.argumentIndex = next.index],
             parameters |-> params]
     ELSE IF argument = "-c"
       THEN IF strtod(value) = 0
              THEN Exits(read)
              ELSE Goes(read, [params EXCEPT !.convergenceCriterion = strtod(value)])
     ELSE IF argument = "-m"
       THEN IF strtol(value) = 0
              THEN Exits(read)
              ELSE Goes(read, [params EXCEPT !.maxIterations = strtol(value)])
     ELSE IF argument = "-a"
       THEN IF strtod(value) = 0 \/ strtod(value) > One
              THEN Exits(read)
              ELSE Goes(read, [params EXCEPT !.dampingFactor = strtod(value)])
     ELSE IF argument = "-v"
       THEN Goes([p EXCEPT !.verbose = TRUE], params)
     ELSE IF argument = "-h"
       THEN Goes(p, [params EXCEPT !.history = TRUE])
     ELSE IF argument = "-o"
       THEN IF value \in UnwritablePaths
              \* continue: the next pass starts at the file name.
              THEN [parser |-> read, parameters |-> params]
              ELSE Goes([read EXCEPT !.outputFilename = value], params)
     ELSE IF p.argumentIndex = argumentCount - 1
       THEN Goes([p EXCEPT !.graphFilename = argument], params)
     ELSE Exits(p)

\* The loop is left when argumentIndex reaches argumentCount.
endParse(argv, p, params) == [parser |-> [p EXCEPT !.pc = "parsed"], parameters |-> params]

RECURSIVE parseFrom(_, _)
parseFrom(argv, s) ==
  IF s.parser.pc = "start" THEN parseFrom(argv, startParse(argv, s.parser, s.parameters))
  ELSE IF s.parser.pc # "parse" THEN s
  ELSE IF s.parser.argumentIndex < Len(argv)
    THEN parseFrom(argv, parseArgument(argv, s.parser, s.parameters))
  ELSE endParse(argv, s.parser, s.parameters)

\* parseArguments, run from its first to its last statement.
parseArguments(argv) == parseFrom(argv, [parser |-> ParserStart, parameters |-> UnsetParameters])

\* The text of a double or of an int on the command line.
DoubleText(x) == CHOOSE text \in NumberTexts : strtod(text) = x
IntText(n) == CHOOSE text \in NumberTexts : strtol(text) = n

\* A command line that asks for the given run.
CommandLine(maxIterations, convergenceCriterion, dampingFactor, history) ==
  <<"pagerank", "-c", DoubleText(convergenceCriterion), "-a", DoubleText(dampingFactor)>>
    \o (IF maxIterations = 0 THEN <<>> ELSE <<"-m", IntText(maxIterations)>>)
    \o (IF history THEN <<"-h">> ELSE <<>>)
    \o <<"graph">>

\* The command lines parseArguments is run on.
AllCommandLines == {<<"pagerank">> \o a : a \in SeqsUpTo(ArgumentTexts, MaxArguments)}

\* ------------------------------------------------------------------ state
VARIABLES
  argumentVector,          \* the command line
  parser,                  \* the locals of parseArguments and the file names it stores
  graphFile,               \* the graph file named on the command line
  loader,                  \* the locals of generateNormalizedTransitionMatrixFromFile
  transitionMatrix,        \* the CsrSparseMatrix main owns
  callerParameters,        \* the Parameters record main owns
  parameters,              \* pagerank's parameter, a copy of the caller's record
  maxThreads,              \* P = omp_get_max_threads()
  pagerankVector,
  previousPagerankVector,
  pagerankDifference,
  convergedPagerankVector,
  linksFromConvergedPagesPagerankVector,
  convergenceMatrix,
  newlyConvergedPages,
  linksFromConvergedPages, \* the CooSparseMatrix of links from converged pages
  delta,
  convergenceStatus,
  iterations,
  returnValue,             \* what pagerank returned
  pc,                      \* the position of the thread that runs pagerank
  pending,                 \* pages the per-page convergence loop has not run yet
  tasks,                   \* each page's pass of the per-page sparsity loop
  matrixBeforeRound,       \* the transition matrix when the last sparsity round started
  outputFile,              \* the lines of the output file
  openFailures,            \* how often fopen of the output file has failed
  executed,                \* how often the body of the do-while loop was entered
  checkedAt,               \* the values of `iterations` at which the convergence block ran
  computed                 \* the pagerank vector each pass of the loop body computed, in order

argumentVars == <<argumentVector, parser>>
loaderVars == <<argumentVars, graphFile, loader>>
vectorVars ==
  <<pagerankVector, previousPagerankVector, pagerankDifference, convergedPagerankVector,
    linksFromConvergedPagesPagerankVector>>
flagVars == <<convergenceMatrix, newlyConvergedPages>>
matrixVars == <<transitionMatrix, linksFromConvergedPages>>
loopVars == <<pending, tasks, matrixBeforeRound>>
fileVars == <<outputFile, openFailures>>
parameterVars == <<callerParameters, parameters, maxThreads>>
vars ==
  <<loaderVars, vectorVars, flagVars, matrixVars, loopVars, fileVars, parameterVars,
    delta, convergenceStatus, iterations, returnValue, pc, executed, checkedAt, computed>>

\* ------------------------------------------------------------ parameters
\* The -c, -a and -m arguments the runs are given (parseArguments' defaults are
\* 1, 0.85 and 0).
ConvergenceCriteria == {One, One \div 4}
DampingFactors == {(17 * One) \div 20, One}
\* `-m -1` is accepted: strtol's -1 is stored in a size_t, which is not 0, and
\* converted to the int maxIterations, which holds -1.
MaxIterationsArguments == {-1} \cup 0..MaxIterationsArgument

\* A line a previous run left in the output file.
StaleLine == <<-1>>

\* A page's pass of the per-page sparsity loop before it is started.
IdleTask ==
  [pc |-> "waiting", j |-> 0, size |-> 0, element |-> CooElement(0, 0, 0),
   matrix |-> initCooSparseMatrix]
DoneTask == [IdleTask EXCEPT !.pc = "done"]

\* The state of pagerank's locals after its allocation and initialization block.
SolverEntry(numberOfPages) ==
  /\ previousPagerankVector = ZeroVector(numberOfPages)
  /\ pagerankDifference = ZeroVector(numberOfPages)
  /\ convergedPagerankVector = ZeroVector(numberOfPages)
  /\ linksFromConvergedPagesPagerankVector = ZeroVector(numberOfPages)
  /\ convergenceMatrix = [i \in Pages(numberOfPages) |-> FALSE]
  /\ newlyConvergedPages = [i \in Pages(numberOfPages) |-> FALSE]
  /\ linksFromConvergedPages = initCooSparseMatrix
  /\ delta = 0
  /\ convergenceStatus = FALSE
  /\ iterations = 0
  /\ returnValue = 0
  /\ pending = {}
  /\ tasks = [i \in Pages(numberOfPages) |-> IdleTask]
  /\ matrixBeforeRound = EmptyCsr
  /\ openFailures = 0
  /\ executed = 0
  /\ checkedAt = {}
  /\ computed = <<>>

\* initialize filling the pagerank vector with 1. instead of 1. / numberOfPages.
uniformVector_Ones(numberOfPages) == [i \in Pages(numberOfPages) |-> One]

\* initialize: realIterations = 0 and the uniform pagerank vector.
uniformVector(numberOfPages) == [i \in Pages(numberOfPages) |-> Quotient(One, ToDouble(numberOfPages)).v]

\* The state when main calls pagerank: the graph is loaded from a valid file,
\* initialize has run, and pagerank has initialized its locals.
Init ==
  /\ graphFile \in ValidFiles
  /\ loader = finishLoad(normalizedFrom(graphFile))
  /\ transitionMatrix = transformed(normalizedFrom(graphFile))
  /\ callerParameters \in
       {[numberOfPages |-> loader.numberOfPages, maxIterations |-> m,
         convergenceCriterion |-> c, dampingFactor |-> a, history |-> h,
         realIterations |-> 0] :
          m \in MaxIterationsArguments, c \in ConvergenceCriteria,
          a \in DampingFactors, h \in BOOLEAN}
  /\ parameters = callerParameters
  /\ argumentVector =
       CommandLine(callerParameters.maxIterations, callerParameters.convergenceCriterion,
                   callerParameters.dampingFactor, callerParameters.history)
  /\ parser = parseArguments(argumentVector).parser
  /\ maxThreads \in 1..MaxThreads
  /\ pagerankVector = uniformVector(loader.numberOfPages)
  /\ outputFile \in {<<>>, <<StaleLine>>}
  /\ pc = "iterate"
  /\ SolverEntry(loader.numberOfPages)

\* ----------------------------------------------------------- the solver
numberOfPages == parameters.numberOfPages

\* calculateNextPagerank: the new pagerank vector.
calculateNextPagerank(matrix, previous, linksVector, convergedVector, vectorSize, dampingFactor) ==
  LET product == csrSparseMatrixVectorMultiplication(matrix, previous, vectorSize)
      scaled == [i \in Pages(vectorSize) |-> Mul(dampingFactor, product[i])]
      normDifference == vectorNorm(previous, vectorSize) - vectorNorm(scaled, vectorSize)
      webUniformProbability == Quotient(One, ToDouble(vectorSize)).v
  IN [i \in Pages(vectorSize) |->
        scaled[i] + Mul(Mul(Half, normDifference), webUniformProbability)
          + linksVector[i] + convergedVector[i]]

\* savePagerankToFile opening the file with "a" whatever `append` is.
savePagerankToFile_AlwaysAppend(file, append, vector, opened) ==
  IF ~opened THEN file ELSE Append(file, vector)

\* savePagerankToFile: the file afterwards; a file that cannot be opened is
\* left as it is.
savePagerankToFile(file, append, vector, opened) ==
  IF ~opened THEN file
  ELSE IF append THEN Append(file, vector)
  ELSE <<vector>>

\* The output file is written with an fopen that succeeds or fails.
SaveOutcome(append) ==
  \E opened \in BOOLEAN :
    /\ ~opened => openFailures < MaxOpenFailures
    /\ outputFile' = savePagerankToFile(outputFile, append, pagerankVector, opened)
    /\ openFailures' = IF opened THEN openFailures ELSE openFailures + 1

\* The check counted from 1: if (!((iterations + 1) % CONVERGENCE_CHECK_ITERATION_PERIOD))
ConvergenceCheckDue_CountedFromOne(t) == ((t + 1) % CONVERGENCE_CHECK_ITERATION_PERIOD) = 0

\* if (!(iterations % CONVERGENCE_CHECK_ITERATION_PERIOD))
ConvergenceCheckDue(t) == (t % CONVERGENCE_CHECK_ITERATION_PERIOD) = 0

\* if (iterations && !(iterations % SPARSITY_INCREASE_ITERATION_PERIOD))
SparsityIncreaseDue(t) == t # 0 /\ (t % SPARSITY_INCREASE_ITERATION_PERIOD) = 0

\* The loop condition without the test for an unlimited run.
LoopContinues_NoUnlimited(status, maxIterations, count) ==
  ~status /\ count < maxIterations

\* The loop condition with <= for <.
LoopContinues_OffByOne(status, maxIterations, count) ==
  ~status /\ (maxIterations = 0 \/ count <= maxIterations)

\* while (!*convergenceStatus && (maxIterations == 0 || iterations < maxIterations))
LoopContinues(status, maxIterations, count) ==
  ~status /\ (maxIterations = 0 \/ count < maxIterations)

\* The relative change of a page: fabs(current - previous) / fabs(previous).
relativeDifference(current, previous) == Quotient(fabs(current - previous), fabs(previous))

\* The body of the first parallel loop with convergenceMatrix[i] =
\* newlyConvergedPages[i] after the test, instead of = true inside it.
checkPage_FlagAssigned(flag, convergedRank, current, previous, criterion) ==
  LET difference == relativeDifference(current, previous)
      newly == ~flag /\ IsLess(difference, criterion)
  IN [newlyConverged |-> newly, flag |-> newly,
      convergedRank |-> IF newly THEN current ELSE convergedRank]

\* The body of the first parallel loop with the test written
\* !(difference >= convergenceCriterion), which a NaN passes.
checkPage_NotGreaterOrEqual(flag, convergedRank, current, previous, criterion) ==
  LET difference == relativeDifference(current, previous)
  IN IF ~flag /\ ~(difference.class = "inf" \/ (difference.class = "num" /\ difference.v >= criterion))
       THEN [newlyConverged |-> TRUE, flag |-> TRUE, convergedRank |-> current]
       ELSE [newlyConverged |-> FALSE, flag |-> flag, convergedRank |-> convergedRank]

\* The body of the first parallel loop with the snapshot taken for every page
\* that passes the test, flagged before or not.
checkPage_RankOverwritten(flag, convergedRank, current, previous, criterion) ==
  LET difference == relativeDifference(current, previous)
  IN IF IsLess(difference, criterion)
       THEN [newlyConverged |-> ~flag, flag |-> TRUE, convergedRank |-> current]
       ELSE [newlyConverged |-> FALSE, flag |-> flag, convergedRank |-> convergedRank]

\* Lines 104-113, the body of the first parallel loop for one page: what
\* newlyConvergedPages[i], convergenceMatrix[i] and convergedPagerankVector[i]
\* hold after it.
checkPage(flag, convergedRank, current, previous, criterion) ==
  LET difference == relativeDifference(current, previous)
  IN IF ~flag /\ IsLess(difference, criterion)
       THEN [newlyConverged |-> TRUE, flag |-> TRUE, convergedRank |-> current]
       ELSE [newlyConverged |-> FALSE, flag |-> flag, convergedRank |-> convergedRank]

\* Line 68: the previous vector is stored.
StorePrevious ==
  /\ pc = "iterate"
  /\ executed < IterationCap
  /\ previousPagerankVector' = pagerankVector
  /\ executed' = executed + 1
  /\ pc' = "calculate"
  /\ UNCHANGED <<loaderVars, pagerankVector, pagerankDifference, convergedPagerankVector,
                 linksFromConvergedPagesPagerankVector, flagVars, matrixVars, loopVars,
                 fileVars, parameterVars, delta, convergenceStatus, iterations,
                 returnValue, checkedAt, computed>>

\* Lines 71-74: the CSR multiplication and the update of the pagerank vector.
CalculateNextPagerank ==
  /\ pc = "calculate"
  /\ pagerankVector' =
       calculateNextPagerank(transitionMatrix, previousPagerankVector,
         linksFromConvergedPagesPagerankVector, convergedPagerankVector,
         numberOfPages, parameters.dampingFactor)
  /\ computed' = Append(computed, pagerankVector')
  /\ pc' = "history"
  /\ UNCHANGED <<loaderVars, previousPagerankVector, pagerankDifference,
                 convergedPagerankVector, linksFromConvergedPagesPagerankVector, flagVars,
                 matrixVars, loopVars, fileVars, parameterVars, delta, convergenceStatus,
                 iterations, returnValue, executed, checkedAt>>

\* Lines 76-80: with history, the vector is written, appended after the first pass.
SaveHistory ==
  /\ pc = "history"
  /\ parameters.history
  /\ SaveOutcome(iterations # 0)
  /\ pc' = "convergence"
  /\ UNCHANGED <<loaderVars, vectorVars, flagVars, matrixVars, loopVars, parameterVars,
                 delta, convergenceStatus, iterations, returnValue, executed, checkedAt, computed>>

NoHistory ==
  /\ pc = "history"
  /\ ~parameters.history
  /\ pc' = "convergence"
  /\ UNCHANGED <<loaderVars, vectorVars, flagVars, matrixVars, loopVars, fileVars,
                 parameterVars, delta, convergenceStatus, iterations, returnValue, executed,
                 checkedAt, computed>>

\* Lines 83-96: the periodic global convergence check.
CheckConvergence ==
  /\ pc = "convergence"
  /\ ConvergenceCheckDue(iterations)
  /\ pagerankDifference' =
       [i \in Pages(numberOfPages) |-> pagerankVector[i] - previousPagerankVector[i]]
  /\ delta' = vectorNorm(pagerankDifference', numberOfPages)
  /\ convergenceStatus' = (convergenceStatus \/ delta' < parameters.convergenceCriterion)
  /\ checkedAt' = checkedAt \cup {iterations}
  /\ pc' = "sparsity"
  /\ UNCHANGED <<loaderVars, pagerankVector, previousPagerankVector, convergedPagerankVector,
                 linksFromConvergedPagesPagerankVector, flagVars, matrixVars, loopVars,
                 fileVars, parameterVars, iterations, returnValue, executed, computed>>

SkipConvergenceCheck ==
  /\ pc = "convergence"
  /\ ~ConvergenceCheckDue(iterations)
  /\ pc' = "sparsity"
  /\ UNCHANGED <<loaderVars, vectorVars, flagVars, matrixVars, loopVars, fileVars,
                 parameterVars, delta, convergenceStatus, iterations, returnValue, executed,
                 checkedAt, computed>>

\* Lines 99-100: a sparsity round starts; newlyConvergedPages is allocated (every
\* element of it is written by the first loop before the second one reads it).
StartSparsityIncrease ==
  /\ pc = "sparsity"
  /\ SparsityIncreaseDue(iterations)
  /\ newlyConvergedPages' = [i \in Pages(numberOfPages) |-> FALSE]
  /\ pending' = Pages(numberOfPages)
  /\ matrixBeforeRound' = transitionMatrix
  /\ pc' = "pageCheck"
  /\ UNCHANGED <<loaderVars, vectorVars, convergenceMatrix, matrixVars, tasks, fileVars,
                 parameterVars, delta, convergenceStatus, iterations, returnValue, executed,
                 checkedAt, computed>>

SkipSparsityIncrease ==
  /\ pc = "sparsity"
  /\ ~SparsityIncreaseDue(iterations)
  /\ pc' = "increment"
  /\ UNCHANGED <<loaderVars, vectorVars, flagVars, matrixVars, loopVars, fileVars,
                 parameterVars, delta, convergenceStatus, iterations, returnValue, executed,
                 checkedAt, computed>>

\* Lines 103-114: the pass of the first parallel loop for page i. The passes
\* touch disjoint elements, so each is one step, in any order.
CheckPage(i) ==
  /\ pc = "pageCheck"
  /\ i \in pending
  /\ LET after == checkPage(convergenceMatrix[i], convergedPagerankVector[i],
                            pagerankVector[i], previousPagerankVector[i],
                            parameters.convergenceCriterion)
     IN /\ newlyConvergedPages' = [newlyConvergedPages EXCEPT ![i] = after.newlyConverged]
        /\ convergenceMatrix' = [convergenceMatrix EXCEPT ![i] = after.flag]
        /\ convergedPagerankVector' =
             [convergedPagerankVector EXCEPT ![i] = after.convergedRank]
  /\ pending' = pending \ {i}
  /\ UNCHANGED <<loaderVars, pagerankVector, previousPagerankVector, pagerankDifference,
                 linksFromConvergedPagesPagerankVector, matrixVars, tasks, matrixBeforeRound,
                 fileVars, parameterVars, delta, convergenceStatus, iterations, returnValue, pc,
                 executed, checkedAt, computed>>

\* The barrier at the end of the first parallel loop; the second one starts.
EndPageCheck ==
  /\ pc = "pageCheck"
  /\ pending = {}
  /\ tasks' = [i \in Pages(numberOfPages) |-> IdleTask]
  /\ pc' = "pageSparsify"
  /\ UNCHANGED <<loaderVars, vectorVars, flagVars, matrixVars, pending, matrixBeforeRound, fileVars,
                 parameterVars, delta, convergenceStatus, iterations, returnValue, executed,
                 checkedAt, computed>>

\* ------------------------------------ the second parallel loop (115-145)
\* The passes that a thread of the team is running.
Running == {i \in Pages(numberOfPages) : tasks[i].pc \notin {"waiting", "done"}}

taskVarsUnchanged ==
  UNCHANGED <<loaderVars, pagerankVector, previousPagerankVector, pagerankDifference,
              convergedPagerankVector, flagVars, pending, matrixBeforeRound, fileVars,
              parameterVars, delta,
              convergenceStatus, iterations, returnValue, pc, executed, checkedAt, computed>>

\* Lines 116-121: a free thread of the team takes the pass of page i.
StartTask(i) ==
  /\ pc = "pageSparsify"
  /\ tasks[i].pc = "waiting"
  /\ Cardinality(Running) < maxThreads
  /\ tasks' = [tasks EXCEPT ![i] =
       IF newlyConvergedPages[i]
         THEN [IdleTask EXCEPT !.pc = "scan", !.j = transitionMatrix.rowCumulativeIndexes[i]]
         ELSE DoneTask]
  /\ UNCHANGED <<matrixVars, linksFromConvergedPagesPagerankVector>>
  /\ taskVarsUnchanged

\* Lines 124-127 and the call of addElement: element j of row i is read; a link
\* to a page that has not converged enters addElement, which reads the size of
\* the matrix.
ScanElement(i) ==
  /\ pc = "pageSparsify"
  /\ tasks[i].pc = "scan"
  /\ tasks[i].j < transitionMatrix.rowCumulativeIndexes[i + 1]
  /\ LET pageLinksTo == transitionMatrix.columnIndexes[tasks[i].j + 1]
     IN tasks' = [tasks EXCEPT ![i] =
          IF convergenceMatrix[pageLinksTo] = FALSE
            THEN [@ EXCEPT !.pc = "addElement",
                           !.size = linksFromConvergedPages.size,
                           !.element = CooElement(transitionMatrix.values[tasks[i].j + 1],
                                                  i, pageLinksTo)]
            ELSE [@ EXCEPT !.j = @ + 1]]
  /\ UNCHANGED <<matrixVars, linksFromConvergedPagesPagerankVector>>
  /\ taskVarsUnchanged

\* The matrix addElement leaves when it read `size` as the matrix's size: the
\* element is stored at elements[size], the elements stored behind it stay in
\* memory, and the size is set to size + 1.
addElementAt(coo, size, element) ==
  [size |-> size + 1,
   elements |-> IF size < Len(coo.elements)
                  THEN [coo.elements EXCEPT ![size + 1] = element]
                  ELSE Append(coo.elements, element)]

\* addElement returns: the element is stored at the size that was read and the
\* size is set to one more.
FinishAddElement(i) ==
  /\ pc = "pageSparsify"
  /\ tasks[i].pc = "addElement"
  /\ linksFromConvergedPages' =
       addElementAt(linksFromConvergedPages, tasks[i].size, tasks[i].element)
  /\ tasks' = [tasks EXCEPT ![i] =
       [IdleTask EXCEPT !.pc = "scan", !.j = tasks[i].j + 1]]
  /\ UNCHANGED <<transitionMatrix, linksFromConvergedPagesPagerankVector>>
  /\ taskVarsUnchanged

\* The row is scanned: next is line 137.
EndScan(i) ==
  /\ pc = "pageSparsify"
  /\ tasks[i].pc = "scan"
  /\ tasks[i].j >= transitionMatrix.rowCumulativeIndexes[i + 1]
  /\ tasks' = [tasks EXCEPT ![i] = [IdleTask EXCEPT !.pc = "zeroOutRow"]]
  /\ UNCHANGED <<matrixVars, linksFromConvergedPagesPagerankVector>>
  /\ taskVarsUnchanged

\* Line 137.
ZeroOutRow(i) ==
  /\ pc = "pageSparsify"
  /\ tasks[i].pc = "zeroOutRow"
  /\ transitionMatrix' = zeroOutRow(transitionMatrix, i)
  /\ tasks' = [tasks EXCEPT ![i].pc = "zeroOutColumn"]
  /\ UNCHANGED <<linksFromConvergedPages, linksFromConvergedPagesPagerankVector>>
  /\ taskVarsUnchanged

\* Line 138; next is the call of line 141.
ZeroOutColumn(i) ==
  /\ pc = "pageSparsify"
  /\ tasks[i].pc = "zeroOutColumn"
  /\ transitionMatrix' = zeroOutColumn(transitionMatrix, i)
  /\ tasks' = [tasks EXCEPT ![i].pc = "callMultiplication"]
  /\ UNCHANGED <<linksFromConvergedPages, linksFromConvergedPagesPagerankVector>>
  /\ taskVarsUnchanged

\* Lines 141-143: the COO multiplication starts and reads the matrix.
StartCooMultiplication(i) ==
  /\ pc = "pageSparsify"
  /\ tasks[i].pc = "callMultiplication"
  /\ tasks' = [tasks EXCEPT ![i] =
       [IdleTask EXCEPT !.pc = "cooMultiplication", !.matrix = linksFromConvergedPages]]
  /\ UNCHANGED <<matrixVars, linksFromConvergedPagesPagerankVector>>
  /\ taskVarsUnchanged

\* The COO multiplication returns: the product of the matrix it read is in
\* linksFromConvergedPagesPagerankVector.
FinishCooMultiplication(i) ==
  /\ pc = "pageSparsify"
  /\ tasks[i].pc = "cooMultiplication"
  /\ linksFromConvergedPagesPagerankVector' =
       cooSparseMatrixVectorMultiplication(tasks[i].matrix, pagerankVector, numberOfPages)
  /\ tasks' = [tasks EXCEPT ![i] = DoneTask]
  /\ UNCHANGED matrixVars
  /\ taskVarsUnchanged

\* The barrier at the end of the second parallel loop, and line 146.
EndSparsityIncrease ==
  /\ pc = "pageSparsify"
  /\ \A i \in Pages(numberOfPages) : tasks[i].pc = "done"
  /\ tasks' = [i \in Pages(numberOfPages) |-> IdleTask]
  /\ pc' = "increment"
  /\ UNCHANGED <<loaderVars, vectorVars, flagVars, matrixVars, pending, matrixBeforeRound, fileVars,
                 parameterVars, delta, convergenceStatus, iterations, returnValue, executed,
                 checkedAt, computed>>

\* Lines 149-157: the iteration is counted and the loop condition decides.
Increment ==
  /\ pc = "increment"
  /\ iterations' = iterations + 1
  /\ pc' = IF LoopContinues(convergenceStatus, parameters.maxIterations, iterations')
             THEN "iterate" ELSE "finish"
  /\ UNCHANGED <<loaderVars, vectorVars, flagVars, matrixVars, loopVars, fileVars,
                 parameterVars, delta, convergenceStatus, returnValue, executed, checkedAt, computed>>

\* Lines 158-173 without history: realIterations of pagerank's own copy of the
\* parameters is set, the last vector is written, iterations is returned.
FinishAndSave ==
  /\ pc = "finish"
  /\ ~parameters.history
  /\ parameters' = [parameters EXCEPT !.realIterations = iterations]
  /\ SaveOutcome(FALSE)
  /\ returnValue' = iterations
  /\ pc' = "returned"
  /\ UNCHANGED <<loaderVars, vectorVars, flagVars, matrixVars, loopVars, callerParameters,
                 maxThreads, delta, convergenceStatus, iterations, executed, checkedAt, computed>>

\* Lines 158-173 with history: nothing more is written.
Finish ==
  /\ pc = "finish"
  /\ parameters.history
  /\ parameters' = [parameters EXCEPT !.realIterations = iterations]
  /\ returnValue' = iterations
  /\ pc' = "returned"
  /\ UNCHANGED <<loaderVars, vectorVars, flagVars, matrixVars, loopVars, fileVars,
                 callerParameters, maxThreads, delta, convergenceStatus, iterations,
                 executed, checkedAt, computed>>

Next ==
  \/ StorePrevious
  \/ CalculateNextPagerank
  \/ SaveHistory
  \/ NoHistory
  \/ CheckConvergence
  \/ SkipConvergenceCheck
  \/ StartSparsityIncrease
  \/ SkipSparsityIncrease
  \/ \E i \in Pages(numberOfPages) : CheckPage(i)
  \/ EndPageCheck
  \/ \E i \in Pages(numberOfPages) : StartTask(i)
  \/ \E i \in Pages(numberOfPages) : ScanElement(i)
  \/ \E i \in Pages(numberOfPages) : FinishAddElement(i)
  \/ \E i \in Pages(numberOfPages) : EndScan(i)
  \/ \E i \in Pages(numberOfPages) : ZeroOutRow(i)
  \/ \E i \in Pages(numberOfPages) : ZeroOutColumn(i)
  \/ \E i \in Pages(numberOfPages) : StartCooMultiplication(i)
  \/ \E i \in Pages(numberOfPages) : FinishCooMultiplication(i)
  \/ EndSparsityIncrease
  \/ Increment
  \/ FinishAndSave
  \/ Finish

Spec == Init /\ [][Next]_vars

\* The state when main calls pagerank for an unlimited run on a long file.
InitLongFiles ==
  /\ graphFile \in LongFiles
  /\ loader = finishLoad(normalizedFrom(graphFile))
  /\ transitionMatrix = transformed(normalizedFrom(graphFile))
  /\ callerParameters \in
       {[numberOfPages |-> loader.numberOfPages, maxIterations |-> 0,
         convergenceCriterion |-> c, dampingFactor |-> a, history |-> h,
         realIterations |-> 0] :
          c \in ConvergenceCriteria, a \in DampingFactors, h \in BOOLEAN}
  /\ parameters = callerParameters
  /\ argumentVector =
       CommandLine(callerParameters.maxIterations, callerParameters.convergenceCriterion,
                   callerParameters.dampingFactor, callerParameters.history)
  /\ parser = parseArguments(argumentVector).parser
  /\ maxThreads \in 1..MaxThreads
  /\ pagerankVector = uniformVector(loader.numberOfPages)
  /\ outputFile = <<>>
  /\ pc = "iterate"
  /\ SolverEntry(loader.numberOfPages)

SpecLongFiles == InitLongFiles /\ [][Next]_vars

\* ------------------------------------------------------------ the loader
\* The state when generateNormalizedTransitionMatrixFromFile has read the four
\* header lines of the file.
InitLoad ==
  /\ graphFile \in AllFiles
  /\ loader = LoaderStart
  /\ transitionMatrix = EmptyCsr
  /\ callerParameters = DefaultParameters
  /\ parameters = DefaultParameters
  /\ argumentVector = CommandLine(0, One, (17 * One) \div 20, FALSE)
  /\ parser = parseArguments(argumentVector).parser
  /\ maxThreads = 1
  /\ pagerankVector = ZeroVector(0)
  /\ outputFile = <<>>
  /\ pc = "loading"
  /\ SolverEntry(0)

solverVars ==
  <<vectorVars, flagVars, linksFromConvergedPages, loopVars, fileVars, parameters,
    maxThreads, delta, convergenceStatus, iterations, returnValue, pc, executed,
    checkedAt, computed>>

\* Lines 404-417: one pass of the edge loop.
ReadEdge ==
  /\ loader.pc = "read"
  /\ loader.i < graphFile.numberOfEdges
  /\ loader' = readEdge(graphFile, loader)
  /\ UNCHANGED <<argumentVars, graphFile, transitionMatrix, callerParameters, solverVars>>

EndOfEdges ==
  /\ loader.pc = "read"
  /\ loader.i >= graphFile.numberOfEdges
  /\ loader' = endOfEdges(graphFile, loader)
  /\ UNCHANGED <<argumentVars, graphFile, transitionMatrix, callerParameters, solverVars>>

\* Lines 422-441: numberOfPages is set and the out-degrees are counted.
CountOutdegree ==
  /\ loader.pc = "count"
  /\ OutdegreeReadsInBounds(graphFile, loader)
  /\ loader' = countOutdegree(graphFile, loader)
  /\ callerParameters' = [callerParameters EXCEPT !.numberOfPages = loader.maxPageIndex + 1]
  /\ UNCHANGED <<argumentVars, graphFile, transitionMatrix, solverVars>>

\* Lines 433-441 after a break of the edge loop: the loop reads elements of
\* tempMatrix that were never added, which is undefined.
CountOutdegreeOutOfBounds ==
  /\ loader.pc = "count"
  /\ ~OutdegreeReadsInBounds(graphFile, loader)
  /\ loader' = [loader EXCEPT !.pc = "undefined"]
  /\ callerParameters' = [callerParameters EXCEPT !.numberOfPages = loader.maxPageIndex + 1]
  /\ UNCHANGED <<argumentVars, graphFile, transitionMatrix, solverVars>>

\* Lines 443-445.
Normalize ==
  /\ loader.pc = "normalize"
  /\ loader' = normalize(graphFile, loader)
  /\ UNCHANGED <<argumentVars, graphFile, transitionMatrix, callerParameters, solverVars>>

\* Lines 448-453: the matrix is transposed and stored in CSR form.
Transform ==
  /\ loader.pc = "transform"
  /\ transitionMatrix' = transformed(loader)
  /\ loader' = finishLoad(loader)
  /\ UNCHANGED <<argumentVars, graphFile, callerParameters, solverVars>>

NextLoad ==
  \/ ReadEdge
  \/ EndOfEdges
  \/ CountOutdegree
  \/ CountOutdegreeOutOfBounds
  \/ Normalize
  \/ Transform

SpecLoad == InitLoad /\ [][NextLoad]_vars

\* ------------------------------------------------------- the command line
\* The state when main calls parseArguments.
InitArguments ==
  /\ argumentVector \in AllCommandLines
  /\ parser = ParserStart
  /\ callerParameters = UnsetParameters
  /\ parameters = UnsetParameters
  /\ graphFile = [numberOfEdges |-> 0, lines |-> <<>>]
  /\ loader = LoaderStart
  /\ transitionMatrix = EmptyCsr
  /\ maxThreads = 1
  /\ pagerankVector = ZeroVector(0)
  /\ outputFile = <<>>
  /\ pc = "parsing"
  /\ SolverEntry(0)

parsedVars == <<argumentVector, graphFile, loader, transitionMatrix, solverVars>>

\* Lines 264-277.
StartParse ==
  /\ parser.pc = "start"
  /\ LET after == startParse(argumentVector, parser, callerParameters)
     IN parser' = after.parser /\ callerParameters' = after.parameters
  /\ UNCHANGED parsedVars

\* Lines 279-326: one pass of the argument loop.
ParseArgument ==
  /\ parser.pc = "parse"
  /\ parser.argumentIndex < Len(argumentVector)
  /\ LET after == parseArgument(argumentVector, parser, callerParameters)
     IN parser' = after.parser /\ callerParameters' = after.parameters
  /\ UNCHANGED parsedVars

\* Line 327: parseArguments returns.
EndParse ==
  /\ parser.pc = "parse"
  /\ parser.argumentIndex >= Len(argumentVector)
  /\ LET after == endParse(argumentVector, parser, callerParameters)
     IN parser' = after.parser /\ callerParameters' = after.parameters
  /\ UNCHANGED parsedVars

NextArguments ==
  \/ StartParse
  \/ ParseArgument
  \/ EndParse

SpecArguments == InitArguments /\ [][NextArguments]_vars

\* ----------------------------------------------------------------- claims
\* C1: with maxIterations = N > 0 the loop body is entered at most N times and
\* pagerank returns the number of times it was entered; with N = 1 that is
\* exactly once, whatever the tolerance and the outcome of the convergence check.
C1_IterationLimit ==
  parameters.maxIterations > 0 =>
    /\ executed <= parameters.maxIterations
    /\ pc = "returned" =>
         /\ returnValue = executed
         /\ parameters.maxIterations = 1 => returnValue = 1

\* A run with -m 1 that returned after one iteration without having converged.
C1_Witness ==
  /\ pc = "returned"
  /\ parameters.maxIterations = 1
  /\ returnValue = 1
  /\ ~convergenceStatus

\* C2: when pagerank has returned, realIterations of the record the caller
\* passed holds the number of completed iterations.
C2_CallerRealIterations ==
  pc = "returned" => callerParameters.realIterations = executed

\* C3: the convergence block runs in exactly the iterations t with t mod 3 = 0;
\* convergenceStatus becomes true only there and only with the first norm of
\* (current - previous) below the tolerance; once it is true no further pass of
\* the loop body starts, the loop being left at the end of that iteration.
C3_ConvergenceCheck ==
  [][/\ pc = "convergence" => ((iterations \in checkedAt') <=> (iterations % 3 = 0))
     /\ checkedAt' \subseteq checkedAt \cup {iterations}
     /\ (~convergenceStatus /\ convergenceStatus') =>
          /\ pc = "convergence"
          /\ iterations % 3 = 0
          /\ vectorNorm([i \in Pages(numberOfPages) |->
                           pagerankVector[i] - previousPagerankVector[i]], numberOfPages)
               < parameters.convergenceCriterion
     /\ convergenceStatus => (executed' = executed /\ pc' # "iterate")
     /\ (convergenceStatus /\ pc = "increment") => pc' = "finish"]_vars

\* An unlimited run that was not converged at the check of iteration 0 and
\* converged at the check of iteration 3.
C3_Witness ==
  /\ pc = "returned"
  /\ parameters.maxIterations = 0
  /\ convergenceStatus
  /\ checkedAt = {0, 3}
  /\ returnValue = 4

\* C4: a convergence flag that is true stays true.
C4_FlagsMonotone ==
  [][\A i \in Pages(numberOfPages) : convergenceMatrix[i] => convergenceMatrix'[i]]_vars

\* A page flagged in an earlier round has been checked again in a later round.
C4_Witness ==
  /\ pc = "pageCheck"
  /\ iterations = 6
  /\ \E i \in Pages(numberOfPages) :
       i \notin pending /\ convergenceMatrix[i] /\ ~newlyConvergedPages[i]

\* C5: never is the transition matrix or the matrix of links from converged
\* pages being changed (addElement, zeroOutRow, zeroOutColumn) in one thread
\* while a multiplication with that matrix is running in another.
C5_ReadOrMutate ==
  /\ \A a, b \in Pages(numberOfPages) :
       a # b => ~(tasks[a].pc = "addElement" /\ tasks[b].pc = "cooMultiplication")
  /\ pc = "calculate" =>
       \A a \in Pages(numberOfPages) : tasks[a].pc \notin {"zeroOutRow", "zeroOutColumn"}

\* C6: no two threads are inside addElement(&linksFromConvergedPages, ...) at
\* the same time.
C6_AppendsExclusive ==
  \A a, b \in Pages(numberOfPages) :
    a # b => ~(tasks[a].pc = "addElement" /\ tasks[b].pc = "addElement")

\* C7: at the end of every sparsity round the vector of links from converged
\* pages is the COO product of the whole matrix of links from converged pages
\* with the current pagerank vector.
C7_CorrectionVectorComplete ==
  (pc = "increment" /\ SparsityIncreaseDue(iterations)) =>
    linksFromConvergedPagesPagerankVector =
      cooSparseMatrixVectorMultiplication(linksFromConvergedPages, pagerankVector,
                                          numberOfPages)

\* What C8 says the output file holds after the return.
OutputAsClaimed ==
  IF parameters.history
    THEN outputFile = computed
    ELSE outputFile = <<pagerankVector>>

IsValidFile(file) ==
  /\ file.numberOfEdges = Len(file.lines)
  /\ \A k \in 1..Len(file.lines) : file.lines[k].kind = "edge"

RowSum(csr, row) ==
  SumSeq([k \in 1..Len(csr.values) |-> IF (k - 1) \in RowRange(csr, row) THEN csr.values[k] ELSE 0])

ColumnEntries(csr, column) == {k \in 1..Len(csr.values) : csr.columnIndexes[k] = column}

ColumnSum(csr, column) ==
  SumSeq([k \in 1..Len(csr.values) |-> IF k \in ColumnEntries(csr, column) THEN csr.values[k] ELSE 0])

\* C9 as stated: after the load of a valid file every row of the stored matrix
\* that has entries sums to 1.
C9_RowsSumToOne ==
  (loader.pc = "loaded" /\ IsValidFile(graphFile)) =>
    \A row \in Pages(callerParameters.numberOfPages) :
      RowRange(transitionMatrix, row) # {} => RowSum(transitionMatrix, row) = One

\* C9 as amended: after the load of a valid file every column of the stored
\* matrix that has entries sums to 1.
C9_ColumnsSumToOne ==
  (loader.pc = "loaded" /\ IsValidFile(graphFile)) =>
    \A column \in Pages(callerParameters.numberOfPages) :
      ColumnEntries(transitionMatrix, column) # {} => ColumnSum(transitionMatrix, column) = One

\* A valid file is loaded and a column of the stored matrix holds two entries
\* in two rows.
C9_Witness ==
  /\ loader.pc = "loaded"
  /\ IsValidFile(graphFile)
  /\ \E column \in Pages(callerParameters.numberOfPages) :
       \E k, m \in ColumnEntries(transitionMatrix, column) :
         /\ k < m
         /\ m - 1 \notin RowRange(transitionMatrix, 0)
         /\ k - 1 \in RowRange(transitionMatrix, 0)

AllNumbers(vector) == \A i \in DOMAIN vector : vector[i] \in Int

\* C10: the relative-change test of a page whose previous rank is 0 does not
\* mark the page: its flag and its converged rank stay, the matrices stay, the
\* page is not newly converged (so the second loop does nothing for it), and
\* every vector holds numbers only.
C10_ZeroPreviousRank ==
  /\ [][\A i \in Pages(numberOfPages) :
          (pc = "pageCheck" /\ i \in pending /\ i \notin pending'
             /\ previousPagerankVector[i] = 0) =>
            /\ newlyConvergedPages'[i] = FALSE
            /\ convergenceMatrix'[i] = convergenceMatrix[i]
            /\ convergedPagerankVector'[i] = convergedPagerankVector[i]
            /\ matrixVars' = matrixVars
            /\ AllNumbers(pagerankVector') /\ AllNumbers(previousPagerankVector')
            /\ AllNumbers(convergedPagerankVector')
            /\ AllNumbers(linksFromConvergedPagesPagerankVector')
            /\ AllNumbers(pagerankDifference')]_vars
  /\ [](\A i \in Pages(numberOfPages) :
          (pc = "pageSparsify" /\ previousPagerankVector[i] = 0) =>
            tasks[i].pc \in {"waiting", "done"})

\* The test has run in a sparsity round for a page whose previous rank is 0.
C10_Witness ==
  /\ pc = "pageCheck"
  /\ \E i \in Pages(numberOfPages) : i \notin pending /\ previousPagerankVector[i] = 0

RECURSIVE ReadableFrom(_, _)
\* The number of edge lines fscanf can read from a position of the file on,
\* up to the end of the file or the first text that is no number.
ReadableFrom(file, position) ==
  IF position > Len(file.lines) \/ file.lines[position].kind # "edge"
    THEN 0
    ELSE 1 + ReadableFrom(file, position + 1)

\* The file supplies fewer readable edges than its header announces.
IsShortFile(file) == ReadableFrom(file, 1) < file.numberOfEdges

\* C11: for a file that supplies fewer readable edges than its header announces
\* the load does not complete, every element of the matrix is an edge read from
\* the file, and the out-degree loop reads no element that was never added.
C11_ShortFileIsFatal ==
  IsShortFile(graphFile) =>
    /\ loader.pc # "loaded"
    /\ loader.pc # "undefined"
    /\ \A k \in 1..loader.tempMatrix.size :
         /\ k <= ReadableFrom(graphFile, 1)
         /\ loader.tempMatrix.elements[k].rowIndex = graphFile.lines[k].from
         /\ loader.tempMatrix.elements[k].columnIndex = graphFile.lines[k].to

\* What the spec requires of an option and its value.
IsValidOption(option, value) ==
  CASE option = "-c" -> strtod(value) > 0
    [] option = "-a" -> strtod(value) > 0 /\ strtod(value) <= One
    [] option = "-o" -> value \notin UnwritablePaths
    [] OTHER -> TRUE

\* C12: parseArguments returns only if every tolerance it read is > 0, every
\* damping factor it read is in (0, 1] and every output path it read can be
\* opened for writing.
C12_InvalidConfigurationExits ==
  parser.pc = "parsed" =>
    \A k \in 1..Len(parser.handled) : IsValidOption(parser.handled[k][1], parser.handled[k][2])

\* C13: the per-page loops run only in iterations t with t > 0 and
\* t mod 3 = 0; the converged rank of a page whose flag is false is 0; a page
\* is flagged only by the per-page test, which stores the page's current rank
\* as its converged rank; the converged rank of a flagged page never changes.
C13_ConvergedRank ==
  /\ [](/\ pc \in {"pageCheck", "pageSparsify"} => (iterations > 0 /\ iterations % 3 = 0)
        /\ \A i \in Pages(numberOfPages) :
             ~convergenceMatrix[i] => convergedPagerankVector[i] = 0)
  /\ [][\A i \in Pages(numberOfPages) :
          /\ (~convergenceMatrix[i] /\ convergenceMatrix'[i]) =>
               /\ pc = "pageCheck"
               /\ iterations > 0 /\ iterations % 3 = 0
               /\ convergedPagerankVector'[i] = pagerankVector[i]
          /\ convergenceMatrix[i] =>
               convergedPagerankVector'[i] = convergedPagerankVector[i]]_vars

\* A page flagged in the round of iteration 3 has been tested again in the
\* round of iteration 6, with a current rank that passes the test and is not
\* its converged rank.
C13_Witness ==
  /\ pc = "pageCheck"
  /\ iterations = 6
  /\ \E i \in Pages(numberOfPages) :
       /\ i \notin pending
       /\ convergenceMatrix[i] /\ ~newlyConvergedPages[i]
       /\ convergedPagerankVector[i] # 0
       /\ convergedPagerankVector[i] # pagerankVector[i]
       /\ IsLess(relativeDifference(pagerankVector[i], previousPagerankVector[i]),
                 parameters.convergenceCriterion)

\* The elements of row i of the correction matrix, in the order of the matrix.
AppendedFor(coo, i) ==
  LET picked == SelectIndices(coo.elements, LAMBDA k : k <= coo.size /\ coo.elements[k].rowIndex = i)
  IN [k \in 1..Len(picked) |-> coo.elements[picked[k]]]

\* The entries of row i of a compressed matrix whose column page has not
\* converged, as triples, in the order of the row.
UnconvergedLinks(csr, i, converged) ==
  LET picked == SelectIndices(csr.values,
                  LAMBDA k : (k - 1) \in RowRange(csr, i) /\ ~converged[csr.columnIndexes[k]])
  IN [k \in 1..Len(picked) |-> CooElement(csr.values[picked[k]], i, csr.columnIndexes[picked[k]])]

\* C14: at the end of a sparsity round the correction matrix holds, for each
\* page newly converged in the round, exactly the entries that row of the
\* transition matrix held before the round whose column page has not
\* converged, with their weights, whatever the interleaving of the passes.
C14_CopiedLinks ==
  (pc = "increment" /\ SparsityIncreaseDue(iterations)) =>
    \A i \in Pages(numberOfPages) :
      newlyConvergedPages[i] =>
        AppendedFor(linksFromConvergedPages, i) =
          UnconvergedLinks(matrixBeforeRound, i, convergenceMatrix)

\* The convergence block of iteration 0 has just run.
AfterFirstCheck == pc = "sparsity" /\ iterations = 0

\* C15 as stated: in the convergence check of iteration 0 both vectors that
\* enter the difference are the initial uniform vector, and delta is 0.
C15_FirstCheckComparesUniformToItself ==
  AfterFirstCheck =>
    /\ \A i \in Pages(numberOfPages) :
         /\ Mul(previousPagerankVector[i], ToDouble(numberOfPages)) = One
         /\ Mul(pagerankVector[i], ToDouble(numberOfPages)) = One
    /\ delta = 0

\* C15 as amended: in the convergence check of iteration 0 the previous vector
\* is the initial uniform vector, the current vector is the one the first pass
\* computed, and delta is the first norm of their difference.
C15_FirstCheckComparesFirstUpdate ==
  AfterFirstCheck =>
    /\ \A i \in Pages(numberOfPages) :
         Mul(previousPagerankVector[i], ToDouble(numberOfPages)) = One
    /\ Len(computed) = 1 /\ pagerankVector = computed[1]
    /\ delta = SumTo([i \in Pages(numberOfPages) |->
                       fabs(pagerankVector[i] - previousPagerankVector[i])], numberOfPages)

\* The check of iteration 0 has run on a first update that moved the uniform
\* vector: delta is not 0.
C15_Witness ==
  /\ AfterFirstCheck
  /\ 0 \in checkedAt
  /\ numberOfPages > 1
  /\ delta > 0
  /\ pagerankVector # previousPagerankVector

\* C16 as stated: pagerank returns after at least one iteration, either
\* converged or with maxIterations > 0 and maxIterations iterations counted;
\* an unlimited run returns only converged.
C16_ExitPostcondition ==
  pc = "returned" =>
    /\ executed >= 1 /\ returnValue = executed
    /\ \/ convergenceStatus
       \/ parameters.maxIterations > 0 /\ returnValue = parameters.maxIterations
    /\ parameters.maxIterations = 0 => convergenceStatus

\* C16 as amended: the same, with a negative maxIterations returning after
\* one iteration.
C16_ExitPostconditionAnyLimit ==
  pc = "returned" =>
    /\ executed >= 1 /\ returnValue = executed
    /\ \/ convergenceStatus
       \/ parameters.maxIterations # 0 /\ returnValue = Max(1, parameters.maxIterations)
    /\ parameters.maxIterations = 0 => convergenceStatus

\* A run with -m 2 that returned after two iterations without having converged.
C16_Witness ==
  /\ pc = "returned"
  /\ ~convergenceStatus
  /\ parameters.maxIterations = 2
  /\ returnValue = 2

\* The triples of a coordinate matrix with a given row and column.
TriplesAt(coo, row, column) ==
  {k \in 1..coo.size : coo.elements[k].rowIndex = row /\ coo.elements[k].columnIndex = column}

\* The stored entries of a compressed matrix with a given row and column.
EntriesAt(csr, row, column) ==
  {k \in 1..Len(csr.values) : (k - 1) \in RowRange(csr, row) /\ csr.columnIndexes[k] = column}

\* C17: a page that is flagged is not newly converged again, and only a newly
\* converged page has its edges copied and its row and column zeroed; the
\* correction matrix holds no more triples of a row and column than the
\* transition matrix stores entries there; its triple count never decreases.
C17_CopiedOnce ==
  /\ [](/\ \A i \in Pages(numberOfPages) :
             tasks[i].pc \notin {"waiting", "done"} => newlyConvergedPages[i]
        /\ \A i, c \in Pages(numberOfPages) :
             Cardinality(TriplesAt(linksFromConvergedPages, i, c))
               <= Cardinality(EntriesAt(transitionMatrix, i, c)))
  /\ [][/\ \A i \in Pages(numberOfPages) :
            (pc = "pageCheck" /\ i \in pending /\ i \notin pending' /\ convergenceMatrix[i]) =>
              ~newlyConvergedPages'[i]
        /\ linksFromConvergedPages'.size >= linksFromConvergedPages.size]_vars

====
